---------------------------- MODULE Spec2Model ----------------------------
(***************************************************************************)
(* A model of the condukt message broker: the Conduktor engine             *)
(* (src/conduktor.go), its volatile store RamStore (src/store_ram.go), its *)
(* durable store BadgerStore (src/wire_udp.go, second file of the          *)
(* concatenation) and the in-process transport GoChanWire                  *)
(* (src/wire_gochan.go, second file of the concatenation).                 *)
(*                                                                         *)
(* A string is the sequence of its tokens, each a digit, "a", ":", "msg" or *)
(* "strand-config". No token is a prefix of another, so one string is a    *)
(* prefix of another exactly when its token sequence is, and two strings   *)
(* compare as their first differing tokens do: the keys the durable store  *)
(* formats ("strand-config:<id>", "msg:<strand>:<id>") and the prefix      *)
(* scans over them behave as they do on bytes.                             *)
(***************************************************************************)
EXTENDS Integers, Sequences, FiniteSets, TLC

\* ------------------------------------------------------------- bounds
\* Most envelopes Send builds in one run, and the highest clock reading.
MaxSends == 2
\* Capacity of one channel buffer (100000 in the code, scaled down).
ChanCap == 2
\* Clock ticks per second (10^9 in the code, scaled down).
TicksPerSecond == 2
\* Most channels the transport makes in one run of its concurrent callers.
MaxChans == 2
\* Most connections the socket transport upgrades in one run.
MaxConns == 2
\* Capacity of one receive buffer of the socket transport (100 in the code,
\* scaled down).
RecvCap == 1

\* ------------------------------------------------------------- strings
Colon == <<":">>
StrA == <<"a">>
StrMsg == <<"msg">>
StrMsgA == <<"msg", ":", "a">>

\* Strand ids the callers use: a plain one, and one that is a word of the
\* durable store's key layout.
Strands == {StrA, StrMsg}
\* The same with a strand id that holds a colon.
WideStrands == Strands \cup {StrMsgA}

\* The payloads callers send: the n-th Send of a run carries the n-th one,
\* as the tests send "Message 1", "Message 2", "Message 3".
Payloads == <<"A", "B", "C", "D", "E", "F">>
\* A payload that is not valid UTF-8 (the one byte 0xff), the string that
\* holds U+FFFD in its place, and the payloads of a sender whose first
\* message is that one.
BytesFF == "0xff"
RuneError == "U+FFFD"
BytePayloads == <<BytesFF, "B", "C", "D", "E", "F">>

\* The tokens in the order of their first bytes.
Tokens == <<"0", "1", "2", "3", "4", "5", "6", "7", "8", "9", ":", "a", "msg",
            "strand-config">>
Rank(c) == CHOOSE i \in 1..Len(Tokens) : Tokens[i] = c

\* fmt.Sprintf("%d", n) for n >= 0.
RECURSIVE Itoa(_)
Itoa(n) ==
    IF n < 10 THEN <<Tokens[n + 1]>>
    ELSE Itoa(n \div 10) \o <<Tokens[(n % 10) + 1]>>

\* bytes.HasPrefix(k, p), which Seek/ValidForPrefix rest on.
HasPrefix(k, p) ==
    /\ Len(p) <= Len(k)
    /\ SubSeq(k, 1, Len(p)) = p

\* bytes.Compare(a, b) <= 0: the order badger iterates its keys in.
LexLeq(a, b) ==
    LET n == IF Len(a) < Len(b) THEN Len(a) ELSE Len(b)
        diff == {i \in 1..n : a[i] # b[i]}
    IN  IF diff = {} THEN Len(a) <= Len(b)
        ELSE LET i == CHOOSE j \in diff : \A k \in diff : j <= k
             IN  Rank(a[i]) < Rank(b[i])

\* The keys of S in iteration order.
RECURSIVE SortKeys(_)
SortKeys(S) ==
    IF S = {} THEN <<>>
    ELSE LET m == CHOOSE k \in S : \A j \in S : LexLeq(k, j)
         IN  <<m>> \o SortKeys(S \ {m})

\* ------------------------------------------------------------- errors
Nil == "nil"
ErrStrandExists == "strand already exists"
ErrStrandNotFound == "strand not found"
ErrStrandMissing == "strand does not exist"
ErrNotConfigured == "strand not configured"
ErrMessageNotFound == "message not found"
ErrBufferFull == "channel buffer full"
ErrNoConnection == "no active WebSocket connection for channel"
ErrNoChannel == "channel does not exist"
ErrChannelClosed == "channel closed"
ErrNoUnacked == "no unacknowledged messages found"
\* Any error badger's Update returns (disk, transaction, closed database).
ErrDB == "badger: update failed"

\* ------------------------------------------------------------- envelopes
NoMsg == [ID |-> <<>>, Strand |-> <<>>, Payload |-> "", Acked |-> FALSE,
          Timestamp |-> 0]

\* time.Now().Unix() at clock reading t.
Unix(t) == t \div TicksPerSecond

\* The Msg literal Send builds.
MsgMake(strandID, payload, t) ==
    [ID |-> Itoa(t), Strand |-> strandID, Payload |-> payload,
     Acked |-> FALSE, Timestamp |-> Unix(t)]

\* json.Marshal of a string: the bytes that are not valid UTF-8 are replaced
\* by U+FFFD. The strand ids and envelope ids of the model are ASCII.
ToValidUTF8(str) == IF str = BytesFF THEN RuneError ELSE str

\* json.Marshal / json.Unmarshal of a Msg and of a StrandConf: the encoded
\* value lists the fields in declaration order.
MarshalMsg(m) ==
    <<"Msg", m.ID, m.Strand, ToValidUTF8(m.Payload), m.Acked, m.Timestamp>>
IsMsgData(v) == Len(v) = 6 /\ v[1] = "Msg"
UnmarshalMsg(v) ==
    [ID |-> v[2], Strand |-> v[3], Payload |-> v[4], Acked |-> v[5],
     Timestamp |-> v[6]]
MarshalConf(c) == <<"StrandConf", c.Durable, c.Ordered>>

StrandConf(durable, ordered) == [Durable |-> durable, Ordered |-> ordered]

\* The registrations callers ask for: the plain strand in either store, the
\* other in the durable store.
AddInputs ==
    {<<StrA, StrandConf(FALSE, TRUE)>>, <<StrA, StrandConf(TRUE, TRUE)>>,
     <<StrMsg, StrandConf(TRUE, TRUE)>>}
\* The same with a durable strand re-registered unordered, and with the
\* strand id that holds a colon.
WideAddInputs ==
    AddInputs \cup {<<StrA, StrandConf(TRUE, FALSE)>>,
                    <<StrMsgA, StrandConf(TRUE, TRUE)>>}

\* ------------------------------------------------------------- state
VARIABLES
    ramStore,    \* RamStore.store: strand -> sequence of Msg
    ramConfigs,  \* RamStore.configs: strand -> StrandConf
    db,          \* BadgerStore.db: key -> value
    channels,    \* GoChanWire.channels: strand -> buffered channel contents
    mu,          \* Conduktor.mu is held (by a Receive blocked on its channel)
    recv,        \* the channel the blocked Receive reads: its strand, not closed
    clock,       \* the last reading of time.Now().UnixNano(), in ticks
    sends,       \* the envelopes Send has built so far
    ret,         \* the last call: its arguments, the calls it made, its result
    obs,         \* what the callers of the tests have seen so far
    wire         \* the transport under concurrent callers, statement by
                 \* statement, a GoChanWire or a WSWire: its mutex, its
                 \* maps, the channels made, and where each goroutine is

vars ==
    <<ramStore, ramConfigs, db, channels, mu, recv, clock, sends, ret, obs, wire>>
\* What the engine's handlers and the tests act on.
engineVars ==
    <<ramStore, ramConfigs, db, channels, mu, recv, clock, sends, ret, obs>>

\* A function with one more pair / one pair less (Go's map assignment and
\* delete, badger's Set and Delete).
Put(f, k, v) == [x \in DOMAIN f \cup {k} |-> IF x = k THEN v ELSE f[x]]
Del(f, k) == [x \in DOMAIN f \ {k} |-> f[x]]
DelAll(f, K) == [x \in DOMAIN f \ K |-> f[x]]
Empty == <<>>


\* ------------------------------------------------------------- RamStore
RamHasStrand(configs, strandID) == strandID \in DOMAIN configs

\* RamStore.CreateStrand: the new configs and store maps, and the error.
RamCreateStrand(configs, store, strandID, config) ==
    IF strandID \in DOMAIN configs
    THEN [configs |-> configs, store |-> store, err |-> ErrStrandExists]
    ELSE [configs |-> Put(configs, strandID, config),
          store |-> Put(store, strandID, <<>>), err |-> Nil]

\* RamStore.DeleteStrand.
RamDeleteStrand(configs, store, strandID) ==
    IF strandID \notin DOMAIN configs
    THEN [configs |-> configs, store |-> store, err |-> ErrStrandMissing]
    ELSE [configs |-> Del(configs, strandID), store |-> Del(store, strandID),
          err |-> Nil]

\* RamStore.Save.
RamSave(configs, store, msg) ==
    IF msg.Strand \notin DOMAIN configs
    THEN [store |-> store, err |-> ErrNotConfigured]
    ELSE [store |-> Put(store, msg.Strand,
                        (IF msg.Strand \in DOMAIN store
                         THEN store[msg.Strand] ELSE <<>>) \o <<msg>>),
          err |-> Nil]

\* messages with the element at index i removed: append(m[:i], m[i+1:]...).
RemoveAt(messages, i) ==
    SubSeq(messages, 1, i - 1) \o SubSeq(messages, i + 1, Len(messages))

\* RamStore.Acknowledge: removes the first message whose ID is msgID.
RamAcknowledge(configs, store, strandID, msgID) ==
    IF strandID \notin DOMAIN configs
    THEN [store |-> store, err |-> ErrStrandMissing]
    ELSE LET messages == IF strandID \in DOMAIN store
                         THEN store[strandID] ELSE <<>>
             hits == {i \in 1..Len(messages) : messages[i].ID = msgID}
         IN  IF hits = {}
             THEN [store |-> store, err |-> ErrMessageNotFound]
             ELSE LET i == CHOOSE j \in hits : \A k \in hits : j <= k
                  IN  [store |-> Put(store, strandID, RemoveAt(messages, i)),
                       err |-> Nil]

\* RamStore.UnackedIterator: the messages the iterator will yield.
RamUnackedIterator(store) == [messages |-> <<>>, err |-> Nil]

\* RamStore.Reset (and Reload, which calls it).
RamReset == [configs |-> Empty, store |-> Empty]

\* ------------------------------------------------------------- BadgerStore
ConfigPrefix == <<"strand-config", ":">>
MsgPrefix == <<"msg", ":">>

\* fmt.Sprintf("strand-config:%s", strandID)
ConfigKey(strandID) == ConfigPrefix \o strandID
\* fmt.Sprintf("msg:%s:%s", strand, id)
MsgKey(strandID, msgID) == MsgPrefix \o strandID \o Colon \o msgID

\* BadgerStore.HasStrand: txn.Get finds the configuration key.
BadgerHasStrand(d, strandID) == ConfigKey(strandID) \in DOMAIN d

\* BadgerStore.CreateStrand: txn.Set of the configuration key.
BadgerCreateStrand(d, strandID, config) ==
    [db |-> Put(d, ConfigKey(strandID), MarshalConf(config)), err |-> Nil]

\* BadgerStore.DeleteStrand: the keys under the prefix strandID + ":" are
\* deleted, then the configuration key.
BadgerDeleteStrand(d, strandID) ==
    LET prefix == strandID \o Colon
        d1 == DelAll(d, {k \in DOMAIN d : HasPrefix(k, prefix)})
    IN  [db |-> Del(d1, ConfigKey(strandID)), err |-> Nil]

\* BadgerStore.Save; fail: db.Update returns an error.
BadgerSave(d, msg, fail) ==
    IF fail THEN [db |-> d, err |-> ErrDB]
    ELSE [db |-> Put(d, MsgKey(msg.Strand, msg.ID), MarshalMsg(msg)),
          err |-> Nil]

\* BadgerStore.Acknowledge: txn.Delete of a key, present or not.
BadgerAcknowledge(d, strandID, msgID) ==
    [db |-> Del(d, MsgKey(strandID, msgID)), err |-> Nil]

\* The keys a prefix scan over "msg:" visits, in iteration order.
MsgKeys(d) == SortKeys({k \in DOMAIN d : HasPrefix(k, MsgPrefix)})

\* BadgerUnackedIterator.Next, called until it reports no more: the
\* envelopes it yields from the keys left. It stops at a value that does
\* not decode.
RECURSIVE BadgerNextAll(_, _)
BadgerNextAll(d, keys) ==
    IF keys = <<>> THEN <<>>
    ELSE IF ~IsMsgData(d[Head(keys)]) THEN <<>>
    ELSE <<UnmarshalMsg(d[Head(keys)])>> \o BadgerNextAll(d, Tail(keys))

\* BadgerStore.UnackedIterator: the read transaction's snapshot and the
\* keys the iterator will visit. open: the call returns with its iterator
\* and read transaction still open, for BadgerUnackedIterator.Close to
\* release; on the error path it has closed and discarded them itself.
BadgerUnackedIterator(d) ==
    IF MsgKeys(d) = <<>>
    THEN [keys |-> <<>>, err |-> ErrNoUnacked, open |-> FALSE]
    ELSE [keys |-> MsgKeys(d), err |-> Nil, open |-> TRUE]

\* A reopening that comes back with an empty database: C18 must tell it
\* from BadgerReload.
BadgerReloadEmpty(d) == Empty

\* BadgerStore.Reset: the directory is removed, the database reopened.
BadgerReset == Empty
\* BadgerStore.Reload: the database is closed and reopened on its files.
BadgerReload(d) == d

\* A transport that puts the newest envelope at the head of the buffer:
\* C15 must tell it from WireSendMessage.
WireSendMessageAtHead(chs, msg) ==
    LET made == IF msg.Strand \in DOMAIN chs THEN chs
                ELSE Put(chs, msg.Strand, <<>>)
    IN  IF Len(made[msg.Strand]) < ChanCap
        THEN [channels |-> Put(made, msg.Strand, <<msg>> \o made[msg.Strand]),
              err |-> Nil]
        ELSE [channels |-> made, err |-> ErrBufferFull]

\* A transport that makes room in a full buffer by dropping its oldest
\* envelope: C26 must tell it from WireSendMessage.
WireSendMessageDropOldest(chs, msg) ==
    LET made == IF msg.Strand \in DOMAIN chs THEN chs
                ELSE Put(chs, msg.Strand, <<>>)
    IN  IF Len(made[msg.Strand]) < ChanCap
        THEN [channels |-> Put(made, msg.Strand, made[msg.Strand] \o <<msg>>),
              err |-> Nil]
        ELSE [channels |-> Put(made, msg.Strand,
                               Tail(made[msg.Strand]) \o <<msg>>),
              err |-> Nil]

\* The buffer of a strand, empty when the transport has no channel for it.
BufferOf(chs, strandID) == IF strandID \in DOMAIN chs THEN chs[strandID] ELSE <<>>

\* A transport whose strands share one capacity: C27 must tell it from
\* WireSendMessage.
WireSendMessageSharedCap(chs, msg) ==
    LET made == IF msg.Strand \in DOMAIN chs THEN chs
                ELSE Put(chs, msg.Strand, <<>>)
    IN  IF Len(BufferOf(made, StrA)) + Len(BufferOf(made, StrMsg)) < ChanCap
        THEN [channels |-> Put(made, msg.Strand, made[msg.Strand] \o <<msg>>),
              err |-> Nil]
        ELSE [channels |-> made, err |-> ErrBufferFull]

\* ------------------------------------------------------------- GoChanWire
\* GoChanWire.SendMessage: the channel of the strand is made when missing;
\* the select sends when the buffer has room and fails otherwise.
WireSendMessage(chs, msg) ==
    LET made == IF msg.Strand \in DOMAIN chs THEN chs
                ELSE Put(chs, msg.Strand, <<>>)
    IN  IF Len(made[msg.Strand]) < ChanCap
        THEN [channels |-> Put(made, msg.Strand, made[msg.Strand] \o <<msg>>),
              err |-> Nil]
        ELSE [channels |-> made, err |-> ErrBufferFull]

\* ------------------------------------------ GoChanWire, concurrent callers
\* The goroutines that call the transport at the same time.
Goroutines == {1, 2, 3}

\* A goroutine outside the transport, and a goroutine at a statement of one
\* of its methods: the strand it passed or ranges over, the channel it read
\* from the map (0: none), the error it is about to return.
Idle == [pc |-> "idle", strand |-> <<>>, ch |-> 0, err |-> Nil]
At(pc, strandID, ch, err) == [pc |-> pc, strand |-> strandID, ch |-> ch, err |-> err]

\* GoChanWireMake: an unlocked mutex (0: no holder), an empty map, no
\* channel made yet, no goroutine inside, no panic raised.
GoChanWireMake ==
    [mu |-> 0, channels |-> Empty, chans |-> <<>>,
     proc |-> [p \in Goroutines |-> Idle], panic |-> ""]

\* The envelope a caller passes to SendMessage for a strand.
WireMsg(strandID) == MsgMake(strandID, Payloads[1], 1)

\* A mutex that lets every Lock through: C30 must tell it from MutexFree.
MutexBroken(holder) == TRUE

\* sync.Mutex: Lock returns when no goroutine holds the mutex.
MutexFree(holder) == holder = 0

\* s.mu.Lock() of the three methods.
WireLock(p, pc, strandID) ==
    /\ wire.proc[p].pc = "idle"
    /\ MutexFree(wire.mu)
    /\ wire' = [wire EXCEPT !.mu = p, !.proc[p] = At(pc, strandID, 0, Nil)]

\* s.mu.Unlock(), deferred or not; the goroutine goes on as next.
WireUnlock(p, next) ==
    wire' = [wire EXCEPT !.mu = 0, !.proc[p] = next]

\* SendMessage: s.mu.Lock().
SendMessageLock(p, strandID) == WireLock(p, "send:make", strandID)

\* SendMessage: the channel of the strand is made when the map has none.
SendMessageMake(p) ==
    LET me == wire.proc[p]
    IN  /\ me.pc = "send:make"
        /\ IF me.strand \in DOMAIN wire.channels
           THEN wire' = [wire EXCEPT !.proc[p].pc = "send:select"]
           ELSE /\ Len(wire.chans) < MaxChans
                /\ wire' = [wire EXCEPT
                     !.chans = Append(@, [buf |-> <<>>, closed |-> FALSE]),
                     !.channels = Put(@, me.strand, Len(wire.chans) + 1),
                     !.proc[p].pc = "send:select"]

\* SendMessage: the select. A send on a closed channel panics; a send on a
\* channel with room proceeds; otherwise, and on the nil channel of a
\* missing map entry, the default branch is taken.
SendMessageSelect(p) ==
    LET me == wire.proc[p]
        c == IF me.strand \in DOMAIN wire.channels
             THEN wire.channels[me.strand] ELSE 0
    IN  /\ me.pc = "send:select"
        /\ IF c = 0
           THEN wire' = [wire EXCEPT
                    !.proc[p] = At("send:unlock", me.strand, c, ErrBufferFull)]
           ELSE IF wire.chans[c].closed
           THEN wire' = [wire EXCEPT
                    !.panic = "send on closed channel",
                    !.proc[p] = At("send:unlock", me.strand, c, Nil)]
           ELSE IF Len(wire.chans[c].buf) < ChanCap
           THEN wire' = [wire EXCEPT
                    !.chans[c].buf = Append(@, WireMsg(me.strand)),
                    !.proc[p] = At("send:unlock", me.strand, c, Nil)]
           ELSE wire' = [wire EXCEPT
                    !.proc[p] = At("send:unlock", me.strand, c, ErrBufferFull)]

\* SendMessage: the deferred s.mu.Unlock() and the return.
SendMessageUnlock(p) ==
    wire.proc[p].pc = "send:unlock" /\ WireUnlock(p, Idle)

\* ReceiveMessage: s.mu.Lock().
ReceiveMessageLock(p, strandID) == WireLock(p, "recv:lookup", strandID)

\* ReceiveMessage: ch, exists := s.channels[channel].
ReceiveMessageLookup(p) ==
    LET me == wire.proc[p]
    IN  /\ me.pc = "recv:lookup"
        /\ wire' = [wire EXCEPT !.proc[p] =
              IF me.strand \in DOMAIN wire.channels
              THEN At("recv:unlock", me.strand, wire.channels[me.strand], Nil)
              ELSE At("recv:unlock", me.strand, 0, ErrNoChannel)]

\* ReceiveMessage: s.mu.Unlock(), before the channel is read.
ReceiveMessageUnlock(p) ==
    /\ wire.proc[p].pc = "recv:unlock"
    /\ WireUnlock(p, IF wire.proc[p].ch = 0 THEN Idle
                     ELSE [wire.proc[p] EXCEPT !.pc = "recv:wait"])

\* ReceiveMessage: msg, ok := <-ch, outside the mutex. It waits while the
\* channel is open and empty; a closed channel still gives what it holds,
\* and "channel closed" is returned once it holds nothing.
ReceiveMessageTake(p) ==
    LET me == wire.proc[p]
    IN  /\ me.pc = "recv:wait"
        /\ wire.chans[me.ch].buf # <<>> \/ wire.chans[me.ch].closed
        /\ IF wire.chans[me.ch].buf # <<>>
           THEN wire' = [wire EXCEPT !.chans[me.ch].buf = Tail(@),
                                     !.proc[p] = Idle]
           ELSE wire' = [wire EXCEPT !.proc[p] = Idle]

\* Reset: s.mu.Lock().
ResetLock(p) == WireLock(p, "reset:range", <<>>)

\* Reset: close(ch) for the next entry of the range over the map. Closing a
\* closed channel panics.
ResetClose(p, strandID) ==
    /\ wire.proc[p].pc = "reset:range"
    /\ strandID \in DOMAIN wire.channels
    /\ LET c == wire.channels[strandID]
       IN  IF wire.chans[c].closed
           THEN wire' = [wire EXCEPT
                    !.panic = "close of closed channel",
                    !.proc[p] = At("reset:delete", strandID, c, Nil)]
           ELSE wire' = [wire EXCEPT
                    !.chans[c].closed = TRUE,
                    !.proc[p] = At("reset:delete", strandID, c, Nil)]

\* Reset: delete(s.channels, strand) for the entry just closed.
ResetDelete(p) ==
    /\ wire.proc[p].pc = "reset:delete"
    /\ wire' = [wire EXCEPT !.channels = Del(@, wire.proc[p].strand),
                            !.proc[p].pc = "reset:range"]

\* Reset: the range is over; s.channels = make(map[string]chan Msg).
ResetNewMap(p) ==
    /\ wire.proc[p].pc = "reset:range"
    /\ DOMAIN wire.channels = {}
    /\ wire' = [wire EXCEPT !.channels = Empty, !.proc[p].pc = "reset:unlock"]

\* Reset: the deferred s.mu.Unlock().
ResetUnlock(p) ==
    wire.proc[p].pc = "reset:unlock" /\ WireUnlock(p, Idle)

\* Goroutines calling SendMessage, ReceiveMessage and Reset of one transport
\* at any time, each statement a step.
NextWire ==
    \/ \E p \in Goroutines, s \in Strands :
          SendMessageLock(p, s) /\ UNCHANGED engineVars
    \/ \E p \in Goroutines : SendMessageMake(p) /\ UNCHANGED engineVars
    \/ \E p \in Goroutines : SendMessageSelect(p) /\ UNCHANGED engineVars
    \/ \E p \in Goroutines : SendMessageUnlock(p) /\ UNCHANGED engineVars
    \/ \E p \in Goroutines, s \in Strands :
          ReceiveMessageLock(p, s) /\ UNCHANGED engineVars
    \/ \E p \in Goroutines : ReceiveMessageLookup(p) /\ UNCHANGED engineVars
    \/ \E p \in Goroutines : ReceiveMessageUnlock(p) /\ UNCHANGED engineVars
    \/ \E p \in Goroutines : ReceiveMessageTake(p) /\ UNCHANGED engineVars
    \/ \E p \in Goroutines : ResetLock(p) /\ UNCHANGED engineVars
    \/ \E p \in Goroutines, s \in Strands :
          ResetClose(p, s) /\ UNCHANGED engineVars
    \/ \E p \in Goroutines : ResetDelete(p) /\ UNCHANGED engineVars
    \/ \E p \in Goroutines : ResetNewMap(p) /\ UNCHANGED engineVars
    \/ \E p \in Goroutines : ResetUnlock(p) /\ UNCHANGED engineVars

\* ------------------------------------------------------------- Conduktor
NoRecv == [strand |-> <<>>, open |-> FALSE]

\* One call a handler made: the callee, the envelope passed, the error back.
Call(fn, msg, err) == [fn |-> fn, msg |-> msg, err |-> err]

\* What a handler leaves behind: its name, the calls it made on its stores
\* and its transport in order, and the error it returned.
Ret(op, calls, err) == [op |-> op, calls |-> calls, err |-> err]

\* No call has returned since the engine was made.
NoRet == Ret("", <<>>, Nil)

\* What a test has seen: the envelopes its Sends returned nil for, in
\* order; the envelopes its Receives returned, in order; the payloads the
\* volatile store held when reload() dropped them; and whether the run has
\* been free of reload(), wire.Reset() and RecoverUnackedMessages().
NoObs == [sent |-> <<>>, got |-> <<>>, lost |-> {}, plain |-> TRUE]

Init ==
    /\ ramStore = Empty
    /\ ramConfigs = Empty
    /\ db = Empty
    /\ channels = Empty
    /\ mu = FALSE
    /\ recv = NoRecv
    /\ clock = 0
    /\ sends = 0
    /\ ret = NoRet
    /\ obs = NoObs
    /\ wire = GoChanWireMake

\* Conduktor.selectStore.
selectStore(durable) == IF durable THEN "durable" ELSE "volatile"

\* A strand lookup that falls back on the volatile store when neither store
\* knows the strand: C5 must tell it from getStore.
getStoreOrVolatile(strandID) ==
    IF BadgerHasStrand(db, strandID) THEN "durable" ELSE "volatile"

\* Conduktor.getStore: the durable store is asked first.
getStore(strandID) ==
    IF BadgerHasStrand(db, strandID) THEN "durable"
    ELSE IF RamHasStrand(ramConfigs, strandID) THEN "volatile"
    ELSE "none"

\* Conduktor.StrandAdd.
StrandAdd(strandID, config) ==
    /\ ~mu
    /\ IF selectStore(config.Durable) = "durable"
       THEN LET r == BadgerCreateStrand(db, strandID, config)
            IN  /\ db' = r.db
                /\ ret' = Ret("StrandAdd", <<Call("CreateStrand", NoMsg, r.err)>>,
                              r.err)
                /\ UNCHANGED <<ramStore, ramConfigs>>
       ELSE LET r == RamCreateStrand(ramConfigs, ramStore, strandID, config)
            IN  /\ ramConfigs' = r.configs
                /\ ramStore' = r.store
                /\ ret' = Ret("StrandAdd", <<Call("CreateStrand", NoMsg, r.err)>>,
                              r.err)
                /\ UNCHANGED db
    /\ UNCHANGED <<channels, mu, recv, clock, sends>>

\* store.Save(msg) on the store getStore returned.
StoreSave(store, msg, fail) ==
    IF store = "durable"
    THEN LET r == BadgerSave(db, msg, fail)
         IN  [db |-> r.db, ramStore |-> ramStore, err |-> r.err]
    ELSE LET r == RamSave(ramConfigs, ramStore, msg)
         IN  [db |-> db, ramStore |-> r.store, err |-> r.err]

\* A Send that transmits before it persists: C3 must tell it from Send.
SendTransmitFirst(strandID, payload, t, fail) ==
    /\ ~mu
    /\ LET store == getStore(strandID)
           msg == MsgMake(strandID, payload, t)
       IN  IF store = "none"
           THEN /\ ret' = Ret("Send", <<>>, ErrStrandNotFound)
                /\ UNCHANGED <<ramStore, db, channels, clock, sends>>
           ELSE /\ sends < MaxSends
                /\ 1 <= t /\ t <= MaxSends
                /\ clock' = t
                /\ sends' = sends + 1
                /\ LET w == WireSendMessage(channels, msg)
                       s == StoreSave(store, msg, fail)
                   IN  /\ channels' = w.channels
                       /\ IF w.err # Nil
                          THEN /\ ret' = Ret("Send", <<Call("SendMessage", msg, w.err)>>,
                                             w.err)
                               /\ UNCHANGED <<ramStore, db>>
                          ELSE /\ ramStore' = s.ramStore
                               /\ db' = s.db
                               /\ ret' = Ret("Send", <<Call("SendMessage", msg, Nil),
                                                       Call("Save", msg, s.err)>>,
                                             s.err)
    /\ UNCHANGED <<ramConfigs, mu, recv>>

\* A Send that takes the envelope back out of the store when the transport
\* rejects it: C4 must tell it from Send.
SendUndoOnReject(strandID, payload, t, fail) ==
    /\ ~mu
    /\ LET store == getStore(strandID)
           msg == MsgMake(strandID, payload, t)
       IN  IF store = "none"
           THEN /\ ret' = Ret("Send", <<>>, ErrStrandNotFound)
                /\ UNCHANGED <<ramStore, db, channels, clock, sends>>
           ELSE /\ sends < MaxSends
                /\ 1 <= t /\ t <= MaxSends
                /\ clock' = t
                /\ sends' = sends + 1
                /\ LET s == StoreSave(store, msg, fail)
                       w == WireSendMessage(channels, msg)
                   IN  IF s.err # Nil
                       THEN /\ ret' = Ret("Send", <<Call("Save", msg, s.err)>>, s.err)
                            /\ UNCHANGED <<ramStore, db, channels>>
                       ELSE /\ ramStore' = IF w.err = Nil THEN s.ramStore ELSE ramStore
                            /\ db' = IF w.err = Nil THEN s.db ELSE db
                            /\ channels' = w.channels
                            /\ ret' = Ret("Send", <<Call("Save", msg, Nil),
                                                    Call("SendMessage", msg, w.err)>>,
                                          w.err)
    /\ UNCHANGED <<ramConfigs, mu, recv>>

\* Conduktor.Send; t is what time.Now() reads, fail whether the store's
\* write fails.
Send(strandID, payload, t, fail) ==
    /\ ~mu
    /\ LET store == getStore(strandID)
           msg == MsgMake(strandID, payload, t)
       IN  IF store = "none"
           THEN /\ ret' = Ret("Send", <<>>, ErrStrandNotFound)
                /\ UNCHANGED <<ramStore, db, channels, clock, sends>>
           ELSE /\ sends < MaxSends
                /\ 1 <= t /\ t <= MaxSends
                /\ clock' = t
                /\ sends' = sends + 1
                /\ LET s == StoreSave(store, msg, fail)
                       w == WireSendMessage(channels, msg)
                   IN  IF s.err # Nil
                       THEN /\ ret' = Ret("Send", <<Call("Save", msg, s.err)>>, s.err)
                            /\ UNCHANGED <<ramStore, db, channels>>
                       ELSE /\ ramStore' = s.ramStore
                            /\ db' = s.db
                            /\ channels' = w.channels
                            /\ ret' = Ret("Send", <<Call("Save", msg, Nil),
                                                    Call("SendMessage", msg, w.err)>>,
                                          w.err)
    /\ UNCHANGED <<ramConfigs, mu, recv>>

\* A Receive that leaves the envelope it returns in the buffer: C16 must
\* tell it from Receive.
ReceivePeek(strandID) ==
    /\ ~mu
    /\ IF strandID \notin DOMAIN channels
       THEN /\ ret' = Ret("Receive", <<Call("ReceiveMessage", NoMsg, ErrNoChannel)>>,
                          ErrNoChannel)
            /\ UNCHANGED <<channels, mu, recv>>
       ELSE IF channels[strandID] # <<>>
       THEN /\ ret' = Ret("Receive",
                          <<Call("ReceiveMessage", Head(channels[strandID]), Nil)>>,
                          Nil)
            /\ UNCHANGED <<channels, mu, recv>>
       ELSE /\ mu' = TRUE
            /\ recv' = [strand |-> strandID, open |-> TRUE]
            /\ ret' = Ret("ReceiveBlocked", <<>>, Nil)
            /\ UNCHANGED channels
    /\ UNCHANGED <<ramStore, ramConfigs, db, clock, sends>>

\* A Receive that asks the stores for the strand first: C6 must tell it
\* from Receive.
ReceiveChecked(strandID) ==
    /\ ~mu
    /\ IF getStore(strandID) = "none"
       THEN /\ ret' = Ret("Receive", <<>>, ErrStrandNotFound)
            /\ UNCHANGED <<channels, mu, recv>>
       ELSE IF strandID \notin DOMAIN channels
       THEN /\ ret' = Ret("Receive", <<Call("ReceiveMessage", NoMsg, ErrNoChannel)>>,
                          ErrNoChannel)
            /\ UNCHANGED <<channels, mu, recv>>
       ELSE IF channels[strandID] # <<>>
       THEN /\ ret' = Ret("Receive",
                          <<Call("ReceiveMessage", Head(channels[strandID]), Nil)>>,
                          Nil)
            /\ channels' = Put(channels, strandID, Tail(channels[strandID]))
            /\ UNCHANGED <<mu, recv>>
       ELSE /\ mu' = TRUE
            /\ recv' = [strand |-> strandID, open |-> TRUE]
            /\ ret' = Ret("ReceiveBlocked", <<>>, Nil)
            /\ UNCHANGED channels
    /\ UNCHANGED <<ramStore, ramConfigs, db, clock, sends>>

\* Conduktor.Receive with GoChanWire.ReceiveMessage: the engine lock is
\* taken and the channel looked up under the wire's lock; a missing channel
\* is an error, a channel that holds an envelope yields its oldest one, and
\* on an empty channel the read (msg, ok := <-ch) blocks with the engine
\* lock held.
Receive(strandID) ==
    /\ ~mu
    /\ IF strandID \notin DOMAIN channels
       THEN /\ ret' = Ret("Receive", <<Call("ReceiveMessage", NoMsg, ErrNoChannel)>>,
                          ErrNoChannel)
            /\ UNCHANGED <<channels, mu, recv>>
       ELSE IF channels[strandID] # <<>>
       THEN /\ ret' = Ret("Receive",
                          <<Call("ReceiveMessage", Head(channels[strandID]), Nil)>>,
                          Nil)
            /\ channels' = Put(channels, strandID, Tail(channels[strandID]))
            /\ UNCHANGED <<mu, recv>>
       ELSE /\ mu' = TRUE
            /\ recv' = [strand |-> strandID, open |-> TRUE]
            /\ ret' = Ret("ReceiveBlocked", <<>>, Nil)
            /\ UNCHANGED channels
    /\ UNCHANGED <<ramStore, ramConfigs, db, clock, sends>>

\* A blocked channel read that a closed channel does not wake: C17 must
\* tell it from ReceiveUnblock.
ReceiveUnblockOpenOnly ==
    /\ mu
    /\ recv.open
    /\ channels[recv.strand] # <<>>
    /\ ret' = Ret("Receive",
                  <<Call("ReceiveMessage", Head(channels[recv.strand]), Nil)>>,
                  Nil)
    /\ channels' = Put(channels, recv.strand, Tail(channels[recv.strand]))
    /\ mu' = FALSE
    /\ recv' = NoRecv
    /\ UNCHANGED <<ramStore, ramConfigs, db, clock, sends>>

\* The blocked channel read goes on, and Receive returns: with the oldest
\* envelope once the channel holds one, with an error once the channel has
\* been closed.
ReceiveUnblock ==
    /\ mu
    /\ IF recv.open
       THEN /\ channels[recv.strand] # <<>>
            /\ ret' = Ret("Receive",
                          <<Call("ReceiveMessage", Head(channels[recv.strand]), Nil)>>,
                          Nil)
            /\ channels' = Put(channels, recv.strand, Tail(channels[recv.strand]))
       ELSE /\ ret' = Ret("Receive",
                          <<Call("ReceiveMessage", NoMsg, ErrChannelClosed)>>,
                          ErrChannelClosed)
            /\ UNCHANGED channels
    /\ mu' = FALSE
    /\ recv' = NoRecv
    /\ UNCHANGED <<ramStore, ramConfigs, db, clock, sends>>

\* Conduktor.Acknowledge.
Acknowledge(strandID, msgID) ==
    /\ ~mu
    /\ LET store == getStore(strandID)
       IN  IF store = "none"
           THEN /\ ret' = Ret("Acknowledge", <<>>, ErrStrandNotFound)
                /\ UNCHANGED <<ramStore, db>>
           ELSE IF store = "durable"
           THEN LET r == BadgerAcknowledge(db, strandID, msgID)
                IN  /\ db' = r.db
                    /\ ret' = Ret("Acknowledge",
                                  <<Call("Acknowledge", NoMsg, r.err)>>, r.err)
                    /\ UNCHANGED ramStore
           ELSE LET r == RamAcknowledge(ramConfigs, ramStore, strandID, msgID)
                IN  /\ ramStore' = r.store
                    /\ ret' = Ret("Acknowledge",
                                  <<Call("Acknowledge", NoMsg, r.err)>>, r.err)
                    /\ UNCHANGED db
    /\ UNCHANGED <<ramConfigs, channels, mu, recv, clock, sends>>

\* Conduktor.StrandRemove.
StrandRemove(strandID) ==
    /\ ~mu
    /\ LET store == getStore(strandID)
       IN  IF store = "none"
           THEN /\ ret' = Ret("StrandRemove", <<>>, ErrStrandNotFound)
                /\ UNCHANGED <<ramStore, ramConfigs, db>>
           ELSE IF store = "durable"
           THEN LET r == BadgerDeleteStrand(db, strandID)
                IN  /\ db' = r.db
                    /\ ret' = Ret("StrandRemove",
                                  <<Call("DeleteStrand", NoMsg, r.err)>>, r.err)
                    /\ UNCHANGED <<ramStore, ramConfigs>>
           ELSE LET r == RamDeleteStrand(ramConfigs, ramStore, strandID)
                IN  /\ ramConfigs' = r.configs
                    /\ ramStore' = r.store
                    /\ ret' = Ret("StrandRemove",
                                  <<Call("DeleteStrand", NoMsg, r.err)>>, r.err)
                    /\ UNCHANGED db
    /\ UNCHANGED <<channels, mu, recv, clock, sends>>

\* A recovery loop that stops at the first envelope the transport rejects:
\* C10 must tell it from ResendAll.
RECURSIVE ResendUntilRejected(_, _)
ResendUntilRejected(chs, msgs) ==
    IF msgs = <<>> THEN [channels |-> chs, calls |-> <<>>]
    ELSE LET w == WireSendMessage(chs, Head(msgs))
             rest == IF w.err # Nil THEN [channels |-> w.channels, calls |-> <<>>]
                     ELSE ResendUntilRejected(w.channels, Tail(msgs))
         IN  [channels |-> rest.channels,
              calls |-> <<Call("SendMessage", Head(msgs), w.err)>> \o rest.calls]

\* The loop of RecoverUnackedMessages over the envelopes the iterator
\* yields: each is passed to wire.SendMessage, a failure is logged and the
\* loop goes on.
RECURSIVE ResendAll(_, _)
ResendAll(chs, msgs) ==
    IF msgs = <<>> THEN [channels |-> chs, calls |-> <<>>]
    ELSE LET w == WireSendMessage(chs, Head(msgs))
             rest == ResendAll(w.channels, Tail(msgs))
         IN  [channels |-> rest.channels,
              calls |-> <<Call("SendMessage", Head(msgs), w.err)>> \o rest.calls]

\* A recovery that deletes from the durable store each envelope the
\* transport accepted: C11 must tell it from RecoverUnackedMessages.
RecoverAndDelete ==
    /\ ~mu
    /\ LET it == BadgerUnackedIterator(db)
           r == ResendAll(channels, BadgerNextAll(db, it.keys))
           done == {MsgKey(r.calls[i].msg.Strand, r.calls[i].msg.ID) :
                       i \in {x \in DOMAIN r.calls : r.calls[x].err = Nil}}
       IN  IF it.err # Nil
           THEN /\ ret' = Ret("RecoverUnackedMessages",
                              <<Call("UnackedIterator", NoMsg, it.err)>>, it.err)
                /\ UNCHANGED <<channels, db>>
           ELSE /\ channels' = r.channels
                /\ db' = DelAll(db, done)
                /\ ret' = Ret("RecoverUnackedMessages",
                              <<Call("UnackedIterator", NoMsg, Nil)>> \o r.calls
                                \o <<Call("Close", NoMsg, Nil)>>,
                              Nil)
    /\ UNCHANGED <<ramStore, ramConfigs, mu, recv, clock, sends>>

\* A recovery that gives up at the first envelope the transport rejects and
\* returns the transport's error: C12 must tell it from
\* RecoverUnackedMessages.
RecoverAbortOnReject ==
    /\ ~mu
    /\ LET it == BadgerUnackedIterator(db)
           r == ResendUntilRejected(channels, BadgerNextAll(db, it.keys))
           last == IF r.calls = <<>> THEN Nil ELSE r.calls[Len(r.calls)].err
       IN  IF it.err # Nil
           THEN /\ ret' = Ret("RecoverUnackedMessages",
                              <<Call("UnackedIterator", NoMsg, it.err)>>, it.err)
                /\ UNCHANGED channels
           ELSE /\ channels' = r.channels
                /\ ret' = Ret("RecoverUnackedMessages",
                              <<Call("UnackedIterator", NoMsg, Nil)>> \o r.calls
                                \o <<Call("Close", NoMsg, Nil)>>,
                              last)
    /\ UNCHANGED <<ramStore, ramConfigs, db, mu, recv, clock, sends>>

\* A recovery that returns without closing its iterator: C28 must tell it
\* from RecoverUnackedMessages.
RecoverNoClose ==
    /\ ~mu
    /\ LET it == BadgerUnackedIterator(db)
           r == ResendAll(channels, BadgerNextAll(db, it.keys))
       IN  IF it.err # Nil
           THEN /\ ret' = Ret("RecoverUnackedMessages",
                              <<Call("UnackedIterator", NoMsg, it.err)>>, it.err)
                /\ UNCHANGED channels
           ELSE /\ channels' = r.channels
                /\ ret' = Ret("RecoverUnackedMessages",
                              <<Call("UnackedIterator", NoMsg, Nil)>> \o r.calls,
                              Nil)
    /\ UNCHANGED <<ramStore, ramConfigs, db, mu, recv, clock, sends>>

\* Conduktor.RecoverUnackedMessages.
RecoverUnackedMessages ==
    /\ ~mu
    /\ LET it == BadgerUnackedIterator(db)
           r == ResendAll(channels, BadgerNextAll(db, it.keys))
       IN  IF it.err # Nil
           THEN /\ ret' = Ret("RecoverUnackedMessages",
                              <<Call("UnackedIterator", NoMsg, it.err)>>, it.err)
                /\ UNCHANGED channels
           ELSE /\ channels' = r.channels
                /\ ret' = Ret("RecoverUnackedMessages",
                              <<Call("UnackedIterator", NoMsg, Nil)>> \o r.calls
                                \o <<Call("Close", NoMsg, Nil)>>,
                              Nil)
    /\ UNCHANGED <<ramStore, ramConfigs, db, mu, recv, clock, sends>>

\* GoChanWire.Reset, called on the transport itself: every channel is
\* closed and dropped from the map. A Receive blocked on one keeps it.
WireReset ==
    /\ channels' = Empty
    /\ recv' = IF mu THEN [recv EXCEPT !.open = FALSE] ELSE recv
    /\ ret' = Ret("GoChanWire.Reset", <<>>, Nil)
    /\ UNCHANGED <<ramStore, ramConfigs, db, mu, clock, sends>>

\* RamStore.Reset, called on the store itself.
RamStoreReset ==
    /\ ramConfigs' = RamReset.configs
    /\ ramStore' = RamReset.store
    /\ ret' = Ret("RamStore.Reset", <<>>, Nil)
    /\ UNCHANGED <<db, channels, mu, recv, clock, sends>>

\* RamStore.Reload, called on the store itself: return s.Reset().
RamStoreReload ==
    /\ ramConfigs' = RamReset.configs
    /\ ramStore' = RamReset.store
    /\ ret' = Ret("RamStore.Reload", <<>>, Nil)
    /\ UNCHANGED <<db, channels, mu, recv, clock, sends>>

\* BadgerStore.Reset, called on the store itself.
BadgerStoreReset ==
    /\ db' = BadgerReset
    /\ ret' = Ret("BadgerStore.Reset", <<>>, Nil)
    /\ UNCHANGED <<ramStore, ramConfigs, channels, mu, recv, clock, sends>>

\* BadgerStore.Reload, called on the store itself.
BadgerStoreReload ==
    /\ db' = BadgerReload(db)
    /\ ret' = Ret("BadgerStore.Reload", <<>>, Nil)
    /\ UNCHANGED <<ramStore, ramConfigs, channels, mu, recv, clock, sends>>

\* The message ids callers acknowledge: the ids Send makes, and one that
\* holds a colon.
MsgIDs == {Itoa(t) : t \in 1..MaxSends}
WideMsgIDs == MsgIDs \cup {StrA \o Colon \o Itoa(1)}

\* The calls on one engine and on its stores and transport, with the strand
\* ids, registrations and message ids drawn from the given sets; ticks are
\* the steps the clock may have made between two readings. No test is
\* watching.
NextOn(strands, adds, ids, ticks) ==
    \/ \E in \in adds : StrandAdd(in[1], in[2]) /\ UNCHANGED <<obs, wire>>
    \/ \E s \in strands, d \in ticks, f \in BOOLEAN :
          Send(s, Payloads[sends + 1], clock + d, f) /\ UNCHANGED <<obs, wire>>
    \/ \E s \in strands : Receive(s) /\ UNCHANGED <<obs, wire>>
    \/ ReceiveUnblock /\ UNCHANGED <<obs, wire>>
    \/ \E s \in strands, id \in ids : Acknowledge(s, id) /\ UNCHANGED <<obs, wire>>
    \/ \E s \in strands : StrandRemove(s) /\ UNCHANGED <<obs, wire>>
    \/ RecoverUnackedMessages /\ UNCHANGED <<obs, wire>>
    \/ WireReset /\ UNCHANGED <<obs, wire>>
    \/ RamStoreReset /\ UNCHANGED <<obs, wire>>
    \/ RamStoreReload /\ UNCHANGED <<obs, wire>>
    \/ BadgerStoreReset /\ UNCHANGED <<obs, wire>>
    \/ BadgerStoreReload /\ UNCHANGED <<obs, wire>>

\* The clock advances between any two Sends.
Next == NextOn(Strands, AddInputs, MsgIDs, {1})

Spec == Init /\ [][Next]_vars

\* The same engine with callers that also use the strand id "msg:a", the
\* message id "a:1" and unordered strands, and with a clock whose reading
\* may be the same for two Sends (time.Now() is not strictly increasing).
NextWide == NextOn(WideStrands, WideAddInputs, WideMsgIDs, {0, 1})

SpecWide == Init /\ [][NextWide]_vars

\* The engine with a scheduler that lets a woken channel read go on: a
\* goroutine whose channel read can complete is run.
SpecWire == Init /\ [][NextWire]_vars
SpecFair == Spec /\ WF_vars(ReceiveUnblock /\ UNCHANGED <<obs, wire>>)

\* --------------------------------------------- WSWire, concurrent callers
\* The goroutines that call ReceiveMessage and SendMessage of the socket
\* transport at the same time.
Callers == {1, 2}

\* The holder of WSWire.mu: a caller by its number, the goroutine of a
\* connection (the handler, then its reader) by the negated number of the
\* connection, 0 when the mutex is free.
GoroutineOf(conn) == 0 - conn

\* WSWireMake: an unlocked mutex, no connection, no receive channel, no
\* caller inside. conns: the connections upgraded so far, each with the
\* strand its handler registered it for, the statement its goroutine is at
\* and the strand of the message it has read. chans: the buffers of the
\* receive channels made so far.
WSWireMake ==
    [mu |-> 0, connections |-> Empty, recvCh |-> Empty, chans |-> <<>>,
     conns |-> <<>>, proc |-> [p \in Callers |-> Idle]]

\* HandleWebSocketConnection: s.upgrader.Upgrade succeeded for a new
\* connection; the handler next locks the transport.
Upgrade(channel) ==
    /\ Len(wire.conns) < MaxConns
    /\ wire' = [wire EXCEPT !.conns =
          Append(@, [channel |-> channel, pc |-> "handle:lock", msg |-> <<>>])]

\* HandleWebSocketConnection: s.mu.Lock().
HandleLock(c) ==
    /\ wire.conns[c].pc = "handle:lock"
    /\ MutexFree(wire.mu)
    /\ wire' = [wire EXCEPT !.mu = GoroutineOf(c),
                            !.conns[c].pc = "handle:register"]

\* HandleWebSocketConnection: the connection is stored for the strand and
\* the receive channel of the strand is made when the map has none.
HandleRegister(c) ==
    LET channel == wire.conns[c].channel
    IN  /\ wire.conns[c].pc = "handle:register"
        /\ IF channel \in DOMAIN wire.recvCh
           THEN wire' = [wire EXCEPT
                    !.connections = Put(@, channel, c),
                    !.conns[c].pc = "handle:unlock"]
           ELSE wire' = [wire EXCEPT
                    !.connections = Put(@, channel, c),
                    !.chans = Append(@, <<>>),
                    !.recvCh = Put(@, channel, Len(wire.chans) + 1),
                    !.conns[c].pc = "handle:unlock"]

\* HandleWebSocketConnection: s.mu.Unlock(), and the reader goroutine starts.
HandleUnlock(c) ==
    /\ wire.conns[c].pc = "handle:unlock"
    /\ wire' = [wire EXCEPT !.mu = 0, !.conns[c].pc = "read"]

\* The reader: conn.ReadMessage() returned a message that decodes to an
\* envelope of some strand. (A message that does not decode sends the
\* reader back to ReadMessage with nothing changed.)
ReaderReadMessage(c, strandID) ==
    /\ wire.conns[c].pc = "read"
    /\ wire' = [wire EXCEPT !.conns[c].pc = "lock", !.conns[c].msg = strandID]

\* The reader: conn.ReadMessage() returned an error, the connection having
\* closed; the loop is left.
ReaderReadError(c) ==
    /\ wire.conns[c].pc = "read"
    /\ wire' = [wire EXCEPT !.conns[c].pc = "close:lock"]

\* The reader: s.mu.Lock() before the envelope is queued.
ReaderLock(c) ==
    /\ wire.conns[c].pc = "lock"
    /\ MutexFree(wire.mu)
    /\ wire' = [wire EXCEPT !.mu = GoroutineOf(c), !.conns[c].pc = "send"]

\* The reader: ch <- msg when the map has a receive channel for the
\* envelope's strand, under the mutex; the send waits while the buffer is
\* full.
ReaderSend(c) ==
    LET strandID == wire.conns[c].msg
    IN  /\ wire.conns[c].pc = "send"
        /\ IF strandID \in DOMAIN wire.recvCh
           THEN /\ Len(wire.chans[wire.recvCh[strandID]]) < RecvCap
                /\ wire' = [wire EXCEPT
                     !.chans[wire.recvCh[strandID]] = Append(@, WireMsg(strandID)),
                     !.conns[c].pc = "unlock"]
           ELSE wire' = [wire EXCEPT !.conns[c].pc = "unlock"]

\* The reader: s.mu.Unlock(), and back to ReadMessage.
ReaderUnlock(c) ==
    /\ wire.conns[c].pc = "unlock"
    /\ wire' = [wire EXCEPT !.mu = 0, !.conns[c].pc = "read",
                            !.conns[c].msg = <<>>]

\* The reader, after the loop: s.mu.Lock().
ReaderCloseLock(c) ==
    /\ wire.conns[c].pc = "close:lock"
    /\ MutexFree(wire.mu)
    /\ wire' = [wire EXCEPT !.mu = GoroutineOf(c),
                            !.conns[c].pc = "close:delete"]

\* The reader, after the loop: the connection and the receive channel of its
\* strand are deleted from the maps. The channel is not closed.
ReaderCloseDelete(c) ==
    /\ wire.conns[c].pc = "close:delete"
    /\ wire' = [wire EXCEPT
          !.connections = Del(@, wire.conns[c].channel),
          !.recvCh = Del(@, wire.conns[c].channel),
          !.conns[c].pc = "close:unlock"]

\* The reader, after the loop: s.mu.Unlock(), then the deferred conn.Close().
ReaderCloseUnlock(c) ==
    /\ wire.conns[c].pc = "close:unlock"
    /\ wire' = [wire EXCEPT !.mu = 0, !.conns[c].pc = "closed"]

\* WSWire.ReceiveMessage is called: the caller is at s.mu.Lock().
WSReceiveCall(p, channel) ==
    /\ wire.proc[p].pc = "idle"
    /\ wire' = [wire EXCEPT !.proc[p] = At("recv:lock", channel, 0, Nil)]

\* WSWire.ReceiveMessage: s.mu.Lock() returns.
WSReceiveLock(p) ==
    /\ wire.proc[p].pc = "recv:lock"
    /\ MutexFree(wire.mu)
    /\ wire' = [wire EXCEPT !.mu = p, !.proc[p].pc = "recv:lookup"]

\* WSWire.ReceiveMessage: ch, exists := s.recvCh[channel].
WSReceiveLookup(p) ==
    LET me == wire.proc[p]
    IN  /\ me.pc = "recv:lookup"
        /\ wire' = [wire EXCEPT !.proc[p] =
              IF me.strand \in DOMAIN wire.recvCh
              THEN At("recv:unlock", me.strand, wire.recvCh[me.strand], Nil)
              ELSE At("recv:unlock", me.strand, 0, ErrNoChannel)]

\* WSWire.ReceiveMessage: s.mu.Unlock(); without a channel the error is
\* returned.
WSReceiveUnlock(p) ==
    /\ wire.proc[p].pc = "recv:unlock"
    /\ wire' = [wire EXCEPT
          !.mu = 0,
          !.proc[p] = IF wire.proc[p].ch = 0 THEN Idle
                      ELSE [wire.proc[p] EXCEPT !.pc = "recv:wait"]]

\* WSWire.ReceiveMessage: msg := <-ch, outside the mutex, and the return of
\* the envelope. It waits while the buffer is empty.
WSReceiveTake(p) ==
    LET me == wire.proc[p]
    IN  /\ me.pc = "recv:wait"
        /\ wire.chans[me.ch] # <<>>
        /\ wire' = [wire EXCEPT !.chans[me.ch] = Tail(@), !.proc[p] = Idle]

\* WSWire.SendMessage is called: the caller is at s.mu.Lock().
WSSendCall(p, strandID) ==
    /\ wire.proc[p].pc = "idle"
    /\ wire' = [wire EXCEPT !.proc[p] = At("send:lock", strandID, 0, Nil)]

\* WSWire.SendMessage: s.mu.Lock() returns.
WSSendLock(p) ==
    /\ wire.proc[p].pc = "send:lock"
    /\ MutexFree(wire.mu)
    /\ wire' = [wire EXCEPT !.mu = p, !.proc[p].pc = "send:write"]

\* WSWire.SendMessage: the connection of the strand is looked up and the
\* encoded envelope written to it, for the peer to read.
WSSendWrite(p) ==
    LET me == wire.proc[p]
    IN  /\ me.pc = "send:write"
        /\ wire' = [wire EXCEPT !.proc[p] =
              IF me.strand \in DOMAIN wire.connections
              THEN At("send:unlock", me.strand, 0, Nil)
              ELSE At("send:unlock", me.strand, 0, ErrNoConnection)]

\* WSWire.SendMessage: the deferred s.mu.Unlock() and the return.
WSSendUnlock(p) ==
    /\ wire.proc[p].pc = "send:unlock"
    /\ wire' = [wire EXCEPT !.mu = 0, !.proc[p] = Idle]

\* A fresh engine whose transport is a WSWire.
InitWS ==
    /\ ramStore = Empty
    /\ ramConfigs = Empty
    /\ db = Empty
    /\ channels = Empty
    /\ mu = FALSE
    /\ recv = NoRecv
    /\ clock = 0
    /\ sends = 0
    /\ ret = NoRet
    /\ obs = NoObs
    /\ wire = WSWireMake

\* Connections coming in, their readers, and goroutines calling
\* ReceiveMessage and SendMessage of one socket transport at any time, each
\* statement a step.
NextWS ==
    \/ \E s \in Strands : Upgrade(s) /\ UNCHANGED engineVars
    \/ \E c \in DOMAIN wire.conns : HandleLock(c) /\ UNCHANGED engineVars
    \/ \E c \in DOMAIN wire.conns : HandleRegister(c) /\ UNCHANGED engineVars
    \/ \E c \in DOMAIN wire.conns : HandleUnlock(c) /\ UNCHANGED engineVars
    \/ \E c \in DOMAIN wire.conns, s \in Strands :
          ReaderReadMessage(c, s) /\ UNCHANGED engineVars
    \/ \E c \in DOMAIN wire.conns : ReaderReadError(c) /\ UNCHANGED engineVars
    \/ \E c \in DOMAIN wire.conns : ReaderLock(c) /\ UNCHANGED engineVars
    \/ \E c \in DOMAIN wire.conns : ReaderSend(c) /\ UNCHANGED engineVars
    \/ \E c \in DOMAIN wire.conns : ReaderUnlock(c) /\ UNCHANGED engineVars
    \/ \E c \in DOMAIN wire.conns : ReaderCloseLock(c) /\ UNCHANGED engineVars
    \/ \E c \in DOMAIN wire.conns : ReaderCloseDelete(c) /\ UNCHANGED engineVars
    \/ \E c \in DOMAIN wire.conns : ReaderCloseUnlock(c) /\ UNCHANGED engineVars
    \/ \E p \in Callers, s \in Strands :
          WSReceiveCall(p, s) /\ UNCHANGED engineVars
    \/ \E p \in Callers : WSReceiveLock(p) /\ UNCHANGED engineVars
    \/ \E p \in Callers : WSReceiveLookup(p) /\ UNCHANGED engineVars
    \/ \E p \in Callers : WSReceiveUnlock(p) /\ UNCHANGED engineVars
    \/ \E p \in Callers : WSReceiveTake(p) /\ UNCHANGED engineVars
    \/ \E p \in Callers, s \in Strands :
          WSSendCall(p, s) /\ UNCHANGED engineVars
    \/ \E p \in Callers : WSSendLock(p) /\ UNCHANGED engineVars
    \/ \E p \in Callers : WSSendWrite(p) /\ UNCHANGED engineVars
    \/ \E p \in Callers : WSSendUnlock(p) /\ UNCHANGED engineVars
SpecWS == InitWS /\ [][NextWS]_vars

\* ------------------------------------------------------------- properties
\* What the claims speak of, read off the state.
Range(seq) == {seq[i] : i \in DOMAIN seq}

\* The strand is registered in the volatile / the durable store.
InVolatile(strandID) == strandID \in DOMAIN ramConfigs
InDurable(strandID) == ConfigKey(strandID) \in DOMAIN db
Unregistered(strandID) == ~InVolatile(strandID) /\ ~InDurable(strandID)

\* The envelopes a database holds under its "msg:" keys.
DurableMsgsOf(d) ==
    {UnmarshalMsg(d[k]) : k \in {x \in DOMAIN d : HasPrefix(x, MsgPrefix)}}
\* The envelopes the volatile store holds, of all strands.
VolatileMsgsOf(store) ==
    UNION {Range(store[s]) : s \in DOMAIN store}

\* The envelopes the last call passed to wire.SendMessage, in order.
Handed ==
    LET idx == SelectSeq([i \in DOMAIN ret.calls |-> i],
                         LAMBDA i : ret.calls[i].fn = "SendMessage")
    IN  [i \in DOMAIN idx |-> ret.calls[idx[i]].msg]

\* The envelopes the transport holds.
WireMsgs == UNION {Range(channels[s]) : s \in DOMAIN channels}

\* ------------------------------------------------------------- the tests
\* The registrations of the tests: a durable strand (TestDurableQueue) and
\* a non-durable one (TestOrderedQueue, TestNonDurableQueue).
TestAddInputs ==
    {<<StrA, StrandConf(TRUE, TRUE)>>, <<StrMsg, StrandConf(FALSE, TRUE)>>}

\* A transport reset that keeps the channels: C14 must tell it from
\* WireResetChannels.
WireResetKeep(chs) == chs

\* GoChanWire.Reset: every channel is closed and deleted from the map.
WireResetChannels(chs) == Empty

\* The test notes the envelope of a Send that returned nil.
SawSend ==
    obs' = IF ret'.op = "Send" /\ ret'.err = Nil
           THEN [obs EXCEPT !.sent = Append(@, ret'.calls[1].msg)]
           ELSE obs

\* The test notes the envelope a Receive returned, as long as the run has
\* seen no reload, reset or recovery.
SawReceive ==
    obs' = IF ret'.op = "Receive" /\ ret'.err = Nil /\ obs.plain
           THEN [obs EXCEPT !.got = Append(@, ret'.calls[1].msg)]
           ELSE obs

\* The run is no longer one of Sends and Receives only.
SawRestart == obs' = [obs EXCEPT !.plain = FALSE]

\* reload() of ConduktorTestFactory: wire.Reset(), then Reload() of the
\* volatile and of the durable store.
reload ==
    /\ channels' = WireResetChannels(channels)
    /\ recv' = IF mu THEN [recv EXCEPT !.open = FALSE] ELSE recv
    /\ ramConfigs' = RamReset.configs
    /\ ramStore' = RamReset.store
    /\ db' = BadgerReload(db)
    /\ ret' = Ret("reload", <<>>, Nil)
    /\ obs' = [obs EXCEPT
                  !.lost = @ \cup {m.Payload : m \in VolatileMsgsOf(ramStore)},
                  !.plain = FALSE]
    /\ UNCHANGED <<mu, clock, sends, wire>>

\* The calls the tests make, in any order, with a clock whose reading may be
\* the same for two Sends; payloads: what the sender sends, message by message.
NextTestOn(payloads) ==
    \/ \E in \in TestAddInputs : StrandAdd(in[1], in[2]) /\ UNCHANGED <<obs, wire>>
    \/ \E s \in Strands, d \in {0, 1}, f \in BOOLEAN :
          Send(s, payloads[sends + 1], clock + d, f) /\ SawSend /\ UNCHANGED wire
    \/ \E s \in Strands : Receive(s) /\ SawReceive /\ UNCHANGED wire
    \/ ReceiveUnblock /\ SawReceive /\ UNCHANGED wire
    \/ RecoverUnackedMessages /\ SawRestart /\ UNCHANGED wire
    \/ reload

NextTest == NextTestOn(Payloads)
SpecTest == Init /\ [][NextTest]_vars
\* The same calls by a sender whose payloads are not all valid UTF-8.
NextBytes == NextTestOn(BytePayloads)
SpecBytes == Init /\ [][NextBytes]_vars

\* C1: StrandAdd(s, config) returns StrandExists whenever s is already
\* registered in the store config.Durable selects, volatile or durable.
C1_StrandAddTwice ==
    [][\A in \in AddInputs :
         (/\ StrandAdd(in[1], in[2])
          /\ IF in[2].Durable THEN InDurable(in[1]) ELSE InVolatile(in[1]))
         => ret'.err = ErrStrandExists]_vars

\* C2: every strand id is registered in at most one of the two stores.
C2_OneStorePerStrand ==
    \A s \in Strands : ~(InVolatile(s) /\ InDurable(s))

\* C3: Send passes an envelope to the transport only after the owning
\* store's Save of it succeeded; when Save fails, Send returns that error,
\* makes no SendMessage call, and the envelope is in no channel and in no
\* store.
C3_PersistBeforeTransmit ==
    ret.op = "Send" =>
        LET calls == ret.calls
            saves == {i \in DOMAIN calls : calls[i].fn = "Save"}
            xmits == {i \in DOMAIN calls : calls[i].fn = "SendMessage"}
        IN  /\ \A i \in xmits :
                 /\ \E j \in saves :
                       j < i /\ calls[j].err = Nil /\ calls[j].msg = calls[i].msg
                 /\ calls[i].msg \in DurableMsgsOf(db) \cup VolatileMsgsOf(ramStore)
            /\ \A j \in saves :
                 calls[j].err # Nil =>
                     /\ xmits = {}
                     /\ ret.err = calls[j].err
                     /\ calls[j].msg \notin WireMsgs
                     /\ calls[j].msg \notin
                            DurableMsgsOf(db) \cup VolatileMsgsOf(ramStore)

\* A Send whose Save failed.
C3_Witness ==
    /\ ret.op = "Send"
    /\ ret.err = ErrDB
    /\ Len(ret.calls) = 1 /\ ret.calls[1].fn = "Save"
    /\ WireMsgs # {}

\* C4: when the transport rejects the envelope after a successful Save,
\* Send returns the transport's error and the envelope is in the store that
\* owns the strand; and a RecoverUnackedMessages that obtained its iterator
\* has passed every envelope the durable store holds to the transport.
C4_TransmitFailureKeepsRecord ==
    /\ (/\ ret.op = "Send"
        /\ Len(ret.calls) = 2
        /\ ret.calls[2].err # Nil)
       => /\ ret.err = ret.calls[2].err
          /\ LET m == ret.calls[2].msg
             IN  IF InDurable(m.Strand) THEN m \in DurableMsgsOf(db)
                 ELSE /\ InVolatile(m.Strand)
                      /\ m \in Range(ramStore[m.Strand])
    /\ (ret.op = "RecoverUnackedMessages" /\ ret.err = Nil)
       => DurableMsgsOf(db) \subseteq Range(Handed)

\* A Send to a durable strand whose buffer was full.
C4_Witness ==
    /\ ret.op = "Send"
    /\ ret.err = ErrBufferFull
    /\ InDurable(ret.calls[2].msg.Strand)
    /\ ret.calls[2].msg \in DurableMsgsOf(db)

\* C5: Send, Acknowledge and StrandRemove on a strand registered in neither
\* store return StrandNotFound and change neither store nor the transport.
C5_UnregisteredStrand ==
    [][\A s \in Strands :
         Unregistered(s) =>
            ((\/ \E f \in BOOLEAN : Send(s, Payloads[sends + 1], clock + 1, f)
              \/ \E id \in MsgIDs : Acknowledge(s, id)
              \/ StrandRemove(s))
             => /\ ret'.err = ErrStrandNotFound
                /\ ret'.calls = <<>>
                /\ UNCHANGED <<ramStore, ramConfigs, db, channels>>)]_vars

\* An Acknowledge of an unregistered strand while the durable store and the
\* transport hold envelopes.
C5_Witness ==
    /\ ret.op = "Acknowledge"
    /\ ret.err = ErrStrandNotFound
    /\ \E s \in Strands : Unregistered(s)
    /\ WireMsgs # {}
    /\ DurableMsgsOf(db) # {}

\* C6 (as written): Receive on a strand registered in neither store returns
\* StrandNotFound and no envelope, whatever the transport holds.
C6_ReceiveStrandNotFound ==
    [][\A s \in Strands :
         (Unregistered(s) /\ Receive(s))
         => /\ ret'.err = ErrStrandNotFound
            /\ \A i \in DOMAIN ret'.calls : ret'.calls[i].msg = NoMsg]_vars

\* C6 (amended): Receive does not consult the stores.  On a strand
\* registered in neither store it returns what the transport holds for the
\* strand: the oldest envelope of the strand's buffer, which it removes,
\* when the buffer is not empty, and the error "channel does not exist" with
\* no envelope when the transport has no channel for the strand.  It never
\* returns StrandNotFound.
C6_ReceiveIgnoresStores ==
    [][\A s \in Strands :
         (Unregistered(s) /\ Receive(s))
         => /\ ret'.err # ErrStrandNotFound
            /\ UNCHANGED <<ramStore, ramConfigs, db>>
            /\ IF s \notin DOMAIN channels
               THEN /\ ret'.err = ErrNoChannel
                    /\ \A i \in DOMAIN ret'.calls : ret'.calls[i].msg = NoMsg
                    /\ UNCHANGED channels
               ELSE channels[s] # <<>> =>
                    /\ ret'.err = Nil
                    /\ ret'.calls[Len(ret'.calls)].msg = Head(channels[s])
                    /\ channels' = [channels EXCEPT ![s] = Tail(channels[s])]]_vars

\* A Receive that returned the envelope of a strand no store knows.
C6_Witness ==
    /\ ret.op = "Receive"
    /\ ret.err = Nil
    /\ ret.calls[Len(ret.calls)].msg # NoMsg
    /\ Unregistered(ret.calls[Len(ret.calls)].msg.Strand)

\* The store that owns the strand holds an envelope of it with this id.
OwnerHolds(strandID, msgID) ==
    IF InDurable(strandID)
    THEN \E m \in DurableMsgsOf(db) : m.Strand = strandID /\ m.ID = msgID
    ELSE /\ strandID \in DOMAIN ramStore
         /\ \E m \in Range(ramStore[strandID]) : m.ID = msgID

\* C7: Acknowledge(s, X) on a registered strand whose store holds no
\* envelope of s with id X returns MessageNotFound.
C7_AckAbsentMessage ==
    [][\A s \in Strands, id \in MsgIDs :
         (/\ Acknowledge(s, id)
          /\ ~Unregistered(s)
          /\ ~OwnerHolds(s, id))
         => ret'.err = ErrMessageNotFound]_vars

\* C8: a successful Acknowledge(s, X) removes no envelope other than the
\* one of strand s with id X: every other envelope of either store is
\* still there afterwards.
C8_AckRemovesOnlyTarget ==
    [][\A s \in WideStrands, id \in WideMsgIDs :
         (Acknowledge(s, id) /\ ret'.err = Nil)
         => /\ \A m \in DurableMsgsOf(db) :
                 (m.Strand # s \/ m.ID # id) => m \in DurableMsgsOf(db')
            /\ \A m \in VolatileMsgsOf(ramStore) :
                 (m.Strand # s \/ m.ID # id) => m \in VolatileMsgsOf(ramStore')]_vars

\* C9: after a successful StrandRemove(s) the store that owned s holds
\* neither the registration of s nor any envelope of s.
C9_RemoveDropsMessages ==
    [][\A s \in Strands :
         (StrandRemove(s) /\ ret'.err = Nil)
         => IF InDurable(s)
            THEN /\ ConfigKey(s) \notin DOMAIN db'
                 /\ \A m \in DurableMsgsOf(db') : m.Strand # s
            ELSE /\ s \notin DOMAIN ramConfigs'
                 /\ s \notin DOMAIN ramStore']_vars

\* C10: a RecoverUnackedMessages that obtained its iterator has passed to
\* the transport every envelope the durable store holds, each exactly once,
\* in increasing byte order of the keys "msg:<strand>:<id>", and nothing
\* else: no envelope of the volatile store.
C10_RecoverHandsAll ==
    ret.op = "RecoverUnackedMessages" =>
        LET h == Handed
            keys == {k \in DOMAIN db : HasPrefix(k, MsgPrefix)}
            key(i) == MsgKey(h[i].Strand, h[i].ID)
        IN  IF ret.err # Nil
            THEN h = <<>> /\ keys = {}
            ELSE /\ Len(h) = Cardinality(keys)
                 /\ \A k \in keys : \E i \in DOMAIN h :
                       key(i) = k /\ MarshalMsg(h[i]) = db[k]
                 /\ \A i, j \in DOMAIN h :
                       i < j => key(i) # key(j) /\ LexLeq(key(i), key(j))
                 /\ \A i \in DOMAIN h : h[i] \notin VolatileMsgsOf(ramStore)

\* A recovery that handed over envelopes of two strands, one of them
\* rejected by the transport.
C10_Witness ==
    /\ ret.op = "RecoverUnackedMessages"
    /\ ret.err = Nil
    /\ Len(Handed) >= 2
    /\ \E i, j \in DOMAIN Handed : Handed[i].Strand # Handed[j].Strand
    /\ \E i \in DOMAIN ret.calls :
          ret.calls[i].fn = "SendMessage" /\ ret.calls[i].err # Nil

\* C11: RecoverUnackedMessages changes neither store, and a second recovery
\* right after a successful one passes the same envelopes to the transport,
\* in the same order.
C11_RecoverKeepsStores ==
    [][RecoverUnackedMessages =>
         /\ UNCHANGED <<ramStore, ramConfigs, db>>
         /\ (ret.op = "RecoverUnackedMessages" /\ ret.err = Nil)
            => (ret'.err = Nil /\ Handed' = Handed)]_vars

\* A recovery after which a buffer holds one envelope twice, with every
\* envelope it passed on still in the durable store.
C11_Witness ==
    /\ ret.op = "RecoverUnackedMessages"
    /\ ret.err = Nil
    /\ Handed # <<>>
    /\ Range(Handed) = DurableMsgsOf(db)
    /\ \E s \in DOMAIN channels : \E i, j \in DOMAIN channels[s] :
          i < j /\ channels[s][i] = channels[s][j]

\* C12: when the transport rejects an envelope during RecoverUnackedMessages
\* the call still returns nil, and every envelope of the durable store whose
\* key comes after the rejected one's is passed to the transport after it.
C12_RejectDoesNotStopRecovery ==
    ret.op = "RecoverUnackedMessages" =>
        LET calls == ret.calls
            key(m) == MsgKey(m.Strand, m.ID)
            rejected == {i \in DOMAIN calls :
                            calls[i].fn = "SendMessage" /\ calls[i].err # Nil}
        IN  rejected # {} =>
               /\ ret.err = Nil
               /\ calls[Len(calls)].fn = "Close"
               /\ \A i \in rejected : \A m \in DurableMsgsOf(db) :
                     (key(m) # key(calls[i].msg) /\ LexLeq(key(calls[i].msg), key(m)))
                     => \E j \in DOMAIN calls :
                           /\ j > i
                           /\ calls[j].fn = "SendMessage"
                           /\ calls[j].msg = m

\* A recovery whose first envelope the transport rejected and whose second
\* it accepted.
C12_Witness ==
    /\ ret.op = "RecoverUnackedMessages"
    /\ Len(ret.calls) >= 4
    /\ ret.calls[2].fn = "SendMessage" /\ ret.calls[2].err = ErrBufferFull
    /\ ret.calls[3].fn = "SendMessage" /\ ret.calls[3].err = Nil
    /\ ret.calls[3].msg \in WireMsgs

\* C18 (as written): Reload of either store keeps every strand registration
\* and every envelope, and Reset of either store leaves it empty.
C18_ReloadKeepsResetDrops ==
    [][/\ RamStoreReload => UNCHANGED <<ramStore, ramConfigs>>
       /\ BadgerStoreReload => UNCHANGED db
       /\ RamStoreReset => (ramStore' = Empty /\ ramConfigs' = Empty)
       /\ BadgerStoreReset => db' = Empty]_vars

\* C18 (amended): Reload of the durable store keeps every strand
\* registration and every envelope it held; Reload of the in-memory store
\* is its Reset and leaves it with no strand and no envelope; Reset leaves
\* either store with no strand and no envelope.
C18_ReloadDurableOnly ==
    [][/\ BadgerStoreReload => UNCHANGED db
       /\ RamStoreReload => (ramStore' = Empty /\ ramConfigs' = Empty)
       /\ RamStoreReset => (ramStore' = Empty /\ ramConfigs' = Empty)
       /\ BadgerStoreReset => db' = Empty]_vars

\* A Reload of the durable store that holds a registration and an envelope.
C18_Witness ==
    /\ ret.op = "BadgerStore.Reload"
    /\ \E s \in Strands : InDurable(s)
    /\ DurableMsgsOf(db) # {}

\* C19: while a Receive is blocked on the empty buffer of a registered
\* strand, a Send to that strand on the same engine can run to its end.
C19_SendWhileReceiveBlocked ==
    (/\ mu
     /\ recv.open
     /\ ~Unregistered(recv.strand)
     /\ sends < MaxSends)
    => ENABLED Send(recv.strand, Payloads[sends + 1], clock + 1, FALSE)

\* C20: the iterator of each store yields exactly the envelopes the store
\* holds.
C20_IteratorYieldsStored ==
    /\ Range(RamUnackedIterator(ramStore).messages) = VolatileMsgsOf(ramStore)
    /\ LET it == BadgerUnackedIterator(db)
       IN  it.err = Nil =>
              Range(BadgerNextAll(db, it.keys)) = DurableMsgsOf(db)

\* C17: once GoChanWire.Reset has closed the channel a Receive is blocked
\* on, that Receive returns, with the error "channel closed" and no
\* envelope; and a Reset during a blocked Receive closes its channel.
C17_ResetUnblocksReceive ==
    /\ [][(WireReset /\ mu) => ~recv'.open]_vars
    /\ [][(ReceiveUnblock /\ ~recv.open)
          => (ret'.err = ErrChannelClosed /\ ret'.calls[1].msg = NoMsg)]_vars
    /\ (mu /\ ~recv.open) ~> (~mu /\ ret.op = "Receive" /\ ret.err = ErrChannelClosed)

\* A Receive that came back from a blocked read with "channel closed".
C17_Witness ==
    /\ ret.op = "Receive"
    /\ ret.err = ErrChannelClosed
    /\ ~mu

\* The envelopes of a strand among those the test has sent / received.
SentOn(strandID) == SelectSeq(obs.sent, LAMBDA m : m.Strand = strandID)
GotOn(strandID) == SelectSeq(obs.got, LAMBDA m : m.Strand = strandID)

\* a is b with some elements left out.
RECURSIVE IsSubseq(_, _)
IsSubseq(a, b) ==
    IF a = <<>> THEN TRUE
    ELSE IF b = <<>> THEN FALSE
    ELSE IF Head(a) = Head(b) THEN IsSubseq(Tail(a), Tail(b))
    ELSE IsSubseq(a, Tail(b))

\* a is the beginning of b.
IsPrefix(a, b) ==
    Len(a) <= Len(b) /\ \A i \in DOMAIN a : a[i] = b[i]

\* C13: after reload() has emptied the transport, RecoverUnackedMessages
\* leaves in the buffer of each durable strand every envelope the test has
\* sent to it with success, in the order of the Sends.
C13_DurableRoundTrip ==
    [][(RecoverUnackedMessages /\ channels = Empty)
       => \A s \in Strands :
             InDurable(s) =>
                IsSubseq(SentOn(s),
                         IF s \in DOMAIN channels' THEN channels'[s] ELSE <<>>)]_vars

\* C14: no payload the volatile store held when reload() dropped it is in
\* the transport or returned by a Receive afterwards, and a strand of which
\* no store holds an envelope has no channel in the transport, so that a
\* Receive on it returns "channel does not exist".
C14_VolatileLostOnReset ==
    /\ \A m \in WireMsgs : m.Payload \notin obs.lost
    /\ (ret.op = "Receive" /\ ret.err = Nil)
       => ret.calls[1].msg.Payload \notin obs.lost
    /\ \A s \in Strands :
          (\A m \in DurableMsgsOf(db) \cup VolatileMsgsOf(ramStore) : m.Strand # s)
          => s \notin DOMAIN channels

\* A Receive on the non-durable strand that found no channel, after a
\* reload() that dropped payloads sent to it and with the durable strand's
\* envelopes back in the transport.
C14_Witness ==
    /\ obs.lost # {}
    /\ ret.op = "Receive"
    /\ ret.err = ErrNoChannel
    /\ StrMsg \notin DOMAIN channels
    /\ WireMsgs # {}

\* C15: in a run of Sends and Receives only, the envelopes the Receives on
\* a strand have returned are the first of those sent to it with success, in
\* the order of the Sends.
C15_ReceiveInSendOrder ==
    obs.plain => \A s \in Strands : IsPrefix(GotOn(s), SentOn(s))

\* Two envelopes received on one strand.
C15_Witness ==
    /\ obs.plain
    /\ \E s \in Strands : Len(GotOn(s)) >= 2

\* C16: in a run of Sends and Receives only, no envelope is returned twice,
\* every envelope returned was sent, and once as many Receives as Sends have
\* returned on a strand the payloads received are the payloads sent.
C16_ReceivedEqualsSent ==
    obs.plain =>
        \A s \in Strands :
           LET got == GotOn(s)
               sent == SentOn(s)
           IN  /\ \A i, j \in DOMAIN got : i # j => got[i].Payload # got[j].Payload
               /\ {got[i].Payload : i \in DOMAIN got}
                     \subseteq {sent[i].Payload : i \in DOMAIN sent}
               /\ Len(got) = Len(sent)
                  => {got[i].Payload : i \in DOMAIN got}
                        = {sent[i].Payload : i \in DOMAIN sent}

\* As many envelopes received as sent on a strand, and more than one.
C16_Witness ==
    /\ obs.plain
    /\ \E s \in Strands : Len(GotOn(s)) = Len(SentOn(s)) /\ Len(SentOn(s)) >= 2

\* ------------------------------------------------------------- C21..C30

\* C21: once every envelope sent on a durable strand has been acknowledged,
\* the durable store holds no unacknowledged envelope, so that
\* UnackedIterator succeeds with nothing to yield and RecoverUnackedMessages
\* returns nil without handing anything to the transport.
C21_RecoverWithNothingUnacked ==
    (ret.op = "RecoverUnackedMessages" /\ DurableMsgsOf(db) = {}
       /\ (\E s \in Strands : InDurable(s)))
      => /\ ret.err = Nil
         /\ Handed = <<>>
         /\ ret.calls[1] = Call("UnackedIterator", NoMsg, Nil)

\* C22: a registered strand keeps the configuration it was registered with:
\* no StrandAdd call changes the configuration a store holds for a strand
\* that is already registered in it.
C22_ConfigFixedAtRegistration ==
    [][\A in \in WideAddInputs :
          StrandAdd(in[1], in[2]) =>
            \A s \in WideStrands :
              /\ InDurable(s) => db'[ConfigKey(s)] = db[ConfigKey(s)]
              /\ InVolatile(s) => ramConfigs'[s] = ramConfigs[s]]_vars

\* The ids of the envelopes each store holds.
DurableIDs == {m.ID : m \in DurableMsgsOf(db)}
VolatileIDs == {m.ID : m \in VolatileMsgsOf(ramStore)}

\* C23: an envelope is written to one store only, so that no envelope id is
\* ever held by the durable and by the volatile store at once.
C23_NoIdInBothStores == DurableIDs \cap VolatileIDs = {}

\* The number of unacknowledged envelopes the owning store holds for a strand.
UnackedCount(strandID) ==
    IF getStore(strandID) = "durable"
    THEN Cardinality({m \in DurableMsgsOf(db) : m.Strand = strandID})
    ELSE IF getStore(strandID) = "volatile" THEN Len(ramStore[strandID])
    ELSE 0

\* C24: a Send whose Save returned nil made an envelope with an id no stored
\* envelope carries, so the Save replaced nothing: the strand has one more
\* unacknowledged envelope than before.
C24_FreshIdEverySend ==
    [][\A s \in Strands, d \in {0, 1}, f \in BOOLEAN :
          (Send(s, Payloads[sends + 1], clock + d, f) /\ ret'.calls # <<>>
             /\ ret'.calls[1].err = Nil) =>
            /\ ret'.calls[1].msg.ID \notin DurableIDs \cup VolatileIDs
            /\ UnackedCount(s)' = UnackedCount(s) + 1]_vars

\* The envelopes Send has built so far for a sender of the given payloads:
\* message i carries payloads[i] and the id and timestamp of a clock reading.
EnvelopesBuilt(payloads) ==
    {MsgMake(s, payloads[i], t) : s \in Strands, i \in 1..sends, t \in 1..clock}

\* C25: an envelope Receive returns, first transmission or retransmission
\* after a recovery, has the id, strand, payload and timestamp of an
\* envelope Send built, and the strand it was asked for.
C25_ReceivedAsSent ==
    (ret.op = "Receive" /\ ret.err = Nil) =>
        ret.calls[1].msg \in EnvelopesBuilt(BytePayloads)

\* C26: no buffer ever holds more than its capacity, and SendMessage on a
\* strand whose buffer holds its capacity returns "channel buffer full" and
\* leaves every buffer as it was.
C26_FullBufferRejects ==
    \A s \in DOMAIN channels :
        /\ Len(channels[s]) <= ChanCap
        /\ Len(channels[s]) = ChanCap =>
              \A i \in 1..MaxSends :
                 LET r == WireSendMessage(channels, MsgMake(s, Payloads[i], i))
                 IN  r.err = ErrBufferFull /\ r.channels = channels
C26_Witness ==
    /\ ret.op = "Send" /\ Len(ret.calls) = 2
    /\ ret.calls[2] = Call("SendMessage", ret.calls[1].msg, ErrBufferFull)
    /\ Len(channels[ret.calls[2].msg.Strand]) = ChanCap
    /\ ret.calls[2].msg \notin Range(channels[ret.calls[2].msg.Strand])

\* C27: a Send, a Receive or a Receive that resumes on strand a leaves the
\* buffer of every other strand as it was, contents and order, and while the
\* buffer of a is full SendMessage to a strand with room still succeeds and
\* leaves a's buffer alone.
C27_BuffersIndependent ==
    /\ [][\A a \in Strands :
            ((\/ \E f \in BOOLEAN : Send(a, Payloads[sends + 1], clock + 1, f)
              \/ Receive(a)
              \/ (ReceiveUnblock /\ recv.strand = a))
             => \A b \in Strands \ {a} :
                   BufferOf(channels', b) = BufferOf(channels, b))]_vars
    /\ [](\A a \in DOMAIN channels : \A b \in Strands \ {a} :
            (Len(channels[a]) = ChanCap /\ Len(BufferOf(channels, b)) < ChanCap)
              => LET r == WireSendMessage(channels, MsgMake(b, Payloads[1], 1))
                 IN  /\ r.err = Nil
                     /\ r.channels[a] = channels[a]
                     /\ r.channels[b] =
                          BufferOf(channels, b) \o <<MsgMake(b, Payloads[1], 1)>>)
C27_Witness ==
    /\ ret.op = "Send" /\ ret.err = Nil
    /\ \E a \in DOMAIN channels \ {ret.calls[1].msg.Strand} :
          Len(channels[a]) = ChanCap
    /\ ret.calls[1].msg \in Range(channels[ret.calls[1].msg.Strand])

\* The calls of the last handler to the named callee.
CallsTo(fn) == {i \in DOMAIN ret.calls : ret.calls[i].fn = fn}

\* C28: when RecoverUnackedMessages has returned, every iterator it obtained
\* is closed: UnackedIterator was called once; when it failed it left no
\* iterator and no transaction open and nothing else was called; when it
\* succeeded, Close was called once, after the last Next and SendMessage,
\* whether or not the transport rejected envelopes on the way.
C28_IteratorClosed ==
    ret.op = "RecoverUnackedMessages" =>
        LET it == BadgerUnackedIterator(db)
            opened == IF it.open THEN 1 ELSE 0
        IN  /\ CallsTo("UnackedIterator") = {1}
            /\ ret.calls[1].err = it.err
            /\ it.err # Nil => ~it.open /\ Len(ret.calls) = 1
            /\ Cardinality(CallsTo("Close")) = opened
            /\ it.open => CallsTo("Close") = {Len(ret.calls)}
C28_Witness ==
    /\ ret.op = "RecoverUnackedMessages"
    /\ \E i \in CallsTo("SendMessage") : ret.calls[i].err = ErrBufferFull
    /\ ret.calls[Len(ret.calls)] = Call("Close", NoMsg, Nil)

\* C29: StrandRemove(s) leaves every other strand as it was in both stores:
\* registered or not, with the same configuration and the same
\* unacknowledged envelopes.
C29_RemoveTouchesOneStrand ==
    [][\A s \in Strands :
          StrandRemove(s) =>
            \A o \in Strands \ {s} :
              /\ InDurable(o)' = InDurable(o)
              /\ InDurable(o) => db'[ConfigKey(o)] = db[ConfigKey(o)]
              /\ {m \in DurableMsgsOf(db') : m.Strand = o}
                   = {m \in DurableMsgsOf(db) : m.Strand = o}
              /\ InVolatile(o)' = InVolatile(o)
              /\ InVolatile(o) => /\ ramConfigs'[o] = ramConfigs[o]
                                  /\ ramStore'[o] = ramStore[o]]_vars

\* C30: however the statements of concurrent SendMessage, ReceiveMessage and
\* Reset calls interleave, no send on a closed channel and no close of a
\* closed channel happens: the statements that touch the map run under the
\* mutex, and a closed channel is in the map only while the Reset that
\* closed it, still holding the mutex, is about to delete it.
C30_NoPanic ==
    /\ wire.panic = ""
    /\ \A p \in Goroutines :
          wire.proc[p].pc \in {"send:make", "send:select", "reset:range",
                               "reset:delete"}
            => wire.mu = p
    /\ \A s \in DOMAIN wire.channels :
          wire.chans[wire.channels[s]].closed
            => /\ wire.mu # 0
               /\ wire.proc[wire.mu] = At("reset:delete", s, wire.channels[s], Nil)
C30_Witness ==
    \E p, q \in Goroutines :
        /\ wire.proc[p].pc = "recv:wait"
        /\ wire.chans[wire.proc[p].ch].closed
        /\ wire.proc[p].strand \in DOMAIN wire.channels
        /\ wire.proc[q] = At("send:unlock", wire.proc[p].strand,
                             wire.channels[wire.proc[p].strand], Nil)
        /\ wire.proc[q].ch # wire.proc[p].ch

\* ------------------------------------------------------------- C31..C32

\* A caller waits in ReceiveMessage on an empty receive channel that the
\* reader of a closed connection has taken out of the map: no reader can
\* reach the channel again, and nothing closes it.
PendingOnRemoved(p) ==
    /\ wire.proc[p].pc = "recv:wait"
    /\ wire.chans[wire.proc[p].ch] = <<>>
    /\ \A s \in DOMAIN wire.recvCh : wire.recvCh[s] # wire.proc[p].ch
    /\ \E c \in DOMAIN wire.conns :
          /\ wire.conns[c].channel = wire.proc[p].strand
          /\ wire.conns[c].pc \in {"close:unlock", "closed"}

\* C31: a ReceiveMessage pending on the empty receive buffer of a strand is
\* not left waiting when the connection of the strand closes: no caller
\* waits on a channel the closing reader has removed.
C31_CloseWakesReceiver == \A p \in Callers : ~PendingOnRemoved(p)

\* The reader of a connection holds the transport lock while its send waits
\* on the full receive buffer of a strand, no caller is reading that buffer,
\* and a caller of ReceiveMessage for the strand waits for the lock.
LockedOut(p) ==
    /\ wire.proc[p].pc = "recv:lock"
    /\ wire.proc[p].strand \in DOMAIN wire.recvCh
    /\ wire.chans[wire.recvCh[wire.proc[p].strand]] # <<>>
    /\ \E c \in DOMAIN wire.conns :
          /\ wire.mu = GoroutineOf(c)
          /\ wire.conns[c].pc = "send"
          /\ wire.conns[c].msg = wire.proc[p].strand
          /\ Len(wire.chans[wire.recvCh[wire.proc[p].strand]]) = RecvCap
    /\ \A q \in Callers :
          wire.proc[q].pc = "recv:wait"
            => wire.proc[q].ch # wire.recvCh[wire.proc[p].strand]

\* C32: a ReceiveMessage called for a strand whose receive buffer holds an
\* envelope is never locked out by the reader: the reader does not keep the
\* transport lock while it waits for room that only this call could make.
C32_ReaderNeverLocksOut == \A p \in Callers : ~LockedOut(p)

=============================================================================
